---- MODULE Spec2Model ----
\* Model of the character-LCD / RGB / button driver CharLCDRGBI2C of
\* src/display.rs.  The driver talks to the LCD only through single-pin
\* transactions of a GPIO expander; every transaction may fail.  Each public
\* operation is one action; the pin transactions and delays it performs are
\* recorded, in order, in last.trace.
EXTENDS Integers, Sequences, FiniteSets, TLC

\* ------------------------------------------------------------------ bounds
\* Longest message text handed to message().
MaxMsgLen == 2
\* Largest row argument handed to set_cursor / cursor_position.
MaxRowArg == 4

\* ------------------------------------------------------------------ pins
\* Expander pin indices (enum Mcp23017Pin: A0..A7 = 0..7, B0..B7 = 8..15).
LCD_RS == 15
LCD_E == 13
LCD_D4 == 12
LCD_D5 == 11
LCD_D6 == 10
LCD_D7 == 9
LCD_RW == 14
RGB_RED == 6
RGB_GREEN == 7
RGB_BLUE == 8
LCD_BACKLIGHT == 5
BTN_LEFT == 4
BTN_UP == 3
BTN_DOWN == 2
BTN_RIGHT == 1
BTN_SELECT == 0

\* ------------------------------------------------------------------ LCD commands and flags
LCD_CLEARDISPLAY == 1
LCD_RETURNHOME == 2
LCD_ENTRYMODESET == 4
LCD_DISPLAYCONTROL == 8
LCD_FUNCTIONSET == 32
LCD_SETDDRAMADDR == 128
LCD_ENTRYLEFT == 2
LCD_ENTRYSHIFTDECREMENT == 0
LCD_DISPLAYON == 4
LCD_CURSOROFF == 0
LCD_BLINKOFF == 0
LCD_4BITMODE == 0
LCD_2LINE == 8
LCD_1LINE == 0
LCD_5X8DOTS == 0
LEFT_TO_RIGHT == 0
LCD_ROW_OFFSETS == <<0, 64, 20, 84>>

\* ------------------------------------------------------------------ u8 arithmetic
RECURSIVE BitAnd(_, _)
\* a & b on naturals.
BitAnd(a, b) ==
    IF a = 0 \/ b = 0 THEN 0
    ELSE (IF a % 2 = 1 /\ b % 2 = 1 THEN 1 ELSE 0) + 2 * BitAnd(a \div 2, b \div 2)

RECURSIVE BitOr(_, _)
\* a | b on naturals.
BitOr(a, b) ==
    IF a = 0 THEN b
    ELSE IF b = 0 THEN a
    ELSE (IF a % 2 = 1 \/ b % 2 = 1 THEN 1 ELSE 0) + 2 * BitOr(a \div 2, b \div 2)

\* `x as u8`: the low eight bits.
AsU8(x) == x % 256

\* ------------------------------------------------------------------ the machine
\* A machine value m is the driver's fields together with the record of the
\* call in progress: trace (pin transactions and delays issued so far), fuel
\* (how many more expander transactions succeed; NoFail = none fails), failed
\* (how many expander transactions returned Err) and err ("ok" while no `?`
\* has returned early).
NoFail == -1

\* One expander transaction.  After an early return nothing more is issued; the
\* transaction that fails is issued (it is the last of the trace) and makes the
\* call return LcdError::Mcp.
Transact(m, kind, pin, val) ==
    IF m.err # "ok" THEN m
    ELSE IF m.fuel = 0
        THEN [m EXCEPT !.trace = Append(@, <<kind, pin, val>>), !.failed = @ + 1,
                       !.err = "Mcp"]
        ELSE [m EXCEPT !.trace = Append(@, <<kind, pin, val>>),
                       !.fuel = IF @ = NoFail THEN NoFail ELSE @ - 1]

digital_write(m, pin, level) == Transact(m, "digital_write", pin, IF level THEN 1 ELSE 0)
pin_mode_output(m, pin) == Transact(m, "pin_mode_output", pin, 0)
pin_mode_input(m, pin) == Transact(m, "pin_mode_input", pin, 0)
pull_up(m, pin) == Transact(m, "pull_up", pin, 1)
digital_read(m, pin, level) == Transact(m, "digital_read", pin, level)

\* The delay provider cannot fail.
delay_us(m, n) == IF m.err # "ok" THEN m ELSE [m EXCEPT !.trace = Append(@, <<"delay_us", 0, n>>)]
delay_ms(m, n) == IF m.err # "ok" THEN m ELSE [m EXCEPT !.trace = Append(@, <<"delay_ms", 0, n>>)]

\* An expander call whose Err is discarded instead of returned with `?`.
digital_write_unchecked(m, pin, level) ==
    IF m.err # "ok" THEN m
    ELSE [Transact(m, "digital_write", pin, IF level THEN 1 ELSE 0) EXCEPT !.err = "ok"]

\* pulse_enable that ignores the result of its writes to E.
pulse_enable_unchecked(m) ==
    IF m.err # "ok" THEN m ELSE
    LET m1 == digital_write_unchecked(m, LCD_E, FALSE)
        m2 == delay_us(m1, 1)
        m3 == digital_write_unchecked(m2, LCD_E, TRUE)
        m4 == delay_us(m3, 1)
        m5 == digital_write_unchecked(m4, LCD_E, FALSE)
    IN  delay_us(m5, 100)

\* pulse_enable that holds E low for 50 us instead of 100 us after the pulse.
pulse_enable_short_guard(m) ==
    IF m.err # "ok" THEN m ELSE
    LET m1 == digital_write(m, LCD_E, FALSE)
        m2 == delay_us(m1, 1)
        m3 == digital_write(m2, LCD_E, TRUE)
        m4 == delay_us(m3, 1)
        m5 == digital_write(m4, LCD_E, FALSE)
    IN  delay_us(m5, 50)

pulse_enable(m) ==
    IF m.err # "ok" THEN m ELSE
    LET m1 == digital_write(m, LCD_E, FALSE)
        m2 == delay_us(m1, 1)
        m3 == digital_write(m2, LCD_E, TRUE)
        m4 == delay_us(m3, 1)
        m5 == digital_write(m4, LCD_E, FALSE)
    IN  delay_us(m5, 100)

write4bits(m, value) ==
    IF m.err # "ok" THEN m ELSE
    LET m1 == digital_write(m, LCD_D4, BitAnd(value, 1) > 0)
        m2 == digital_write(m1, LCD_D5, BitAnd(value, 2) > 0)
        m3 == digital_write(m2, LCD_D6, BitAnd(value, 4) > 0)
        m4 == digital_write(m3, LCD_D7, BitAnd(value, 8) > 0)
    IN  pulse_enable(m4)

\* write8 that sends the low nibble before the high nibble.
write8_low_nibble_first(m, value, char_mode) ==
    IF m.err # "ok" THEN m ELSE
    LET m1 == digital_write(m, LCD_RS, char_mode)
        m2 == write4bits(m1, BitAnd(value, 15))
    IN  write4bits(m2, value \div 16)

write8(m, value, char_mode) ==
    IF m.err # "ok" THEN m ELSE
    LET m1 == digital_write(m, LCD_RS, char_mode)
        m2 == write4bits(m1, value \div 16)
    IN  write4bits(m2, BitAnd(value, 15))

write_command(m, value) == IF m.err # "ok" THEN m ELSE write8(m, value, FALSE)

\* clear that resets the tracked cursor before it sends the command.
clear_resets_first(m) ==
    IF m.err # "ok" THEN m ELSE
    LET m0 == [m EXCEPT !.row = 0, !.column = 0]
        m1 == write_command(m0, LCD_CLEARDISPLAY)
    IN  delay_ms(m1, 3)

clear(m) ==
    IF m.err # "ok" THEN m ELSE
    LET m1 == write_command(m, LCD_CLEARDISPLAY)
        m2 == delay_ms(m1, 3)
    IN  IF m2.err # "ok" THEN m2 ELSE [m2 EXCEPT !.row = 0, !.column = 0]

\* home that first repeats the end of the reset sequence as bare nibbles.
home_reenters_reset(m) ==
    IF m.err # "ok" THEN m ELSE
    LET m1 == delay_ms(write4bits(m, 3), 1)
        m2 == delay_ms(write4bits(m1, 2), 1)
        m3 == write_command(m2, LCD_RETURNHOME)
        m4 == delay_ms(m3, 3)
    IN  IF m4.err # "ok" THEN m4 ELSE [m4 EXCEPT !.row = 0, !.column = 0]

home(m) ==
    IF m.err # "ok" THEN m ELSE
    LET m1 == write_command(m, LCD_RETURNHOME)
        m2 == delay_ms(m1, 3)
    IN  IF m2.err # "ok" THEN m2 ELSE [m2 EXCEPT !.row = 0, !.column = 0]

\* set_color that lights a channel for every non-zero value.
set_color_on_above_zero(m, r, g, b) ==
    IF m.err # "ok" THEN m ELSE
    LET m1 == digital_write(m, m.rgb[1], ~(r > 0))
        m2 == digital_write(m1, m.rgb[2], ~(g > 0))
        m3 == digital_write(m2, m.rgb[3], ~(b > 0))
    IN  IF m3.err # "ok" THEN m3 ELSE [m3 EXCEPT !.color_value = <<r, g, b>>]

set_color(m, r, g, b) ==
    IF m.err # "ok" THEN m ELSE
    LET m1 == digital_write(m, m.rgb[1], ~(r > 1))
        m2 == digital_write(m1, m.rgb[2], ~(g > 1))
        m3 == digital_write(m2, m.rgb[3], ~(b > 1))
    IN  IF m3.err # "ok" THEN m3 ELSE [m3 EXCEPT !.color_value = <<r, g, b>>]

\* `a + b` on u8 overflows above 255: a build with overflow checks panics, a
\* build without them wraps.
U8AddOverflows(a, b) == a + b > 255
U8AddWrapped(a, b) == (a + b) % 256

\* Stand-in for a usize difference that wrapped below zero: a value above every
\* column count.
UsizeWrapped == 2147483647

\* set_cursor with the row offsets of a 16x4 panel.
set_cursor_16x4_offsets(m, col, row) ==
    LET row_offsets == <<0, 64, 16, 80>>
    IN  IF row >= m.lines THEN [m EXCEPT !.err = "Other"]
        ELSE IF U8AddOverflows(AsU8(col), row_offsets[row + 1]) /\ m.overflow_checks
            THEN [m EXCEPT !.err = "panic"]
        ELSE LET command == BitOr(LCD_SETDDRAMADDR, U8AddWrapped(AsU8(col), row_offsets[row + 1]))
                 m1 == write_command(m, command)
             IN  IF m1.err # "ok" THEN m1 ELSE [m1 EXCEPT !.row = row, !.column = col]

\* set_cursor that saturates the row as cursor_position does.
set_cursor_clamps_row(m, col, row0) ==
    LET row_offsets == <<0, 64, 20, 84>>
        row == IF row0 >= m.lines THEN m.lines - 1 ELSE row0
    IN  IF U8AddOverflows(AsU8(col), row_offsets[row + 1]) /\ m.overflow_checks
            THEN [m EXCEPT !.err = "panic"]
        ELSE LET command == BitOr(LCD_SETDDRAMADDR, U8AddWrapped(AsU8(col), row_offsets[row + 1]))
                 m1 == write_command(m, command)
             IN  IF m1.err # "ok" THEN m1 ELSE [m1 EXCEPT !.row = row, !.column = col]

set_cursor(m, col, row) ==
    LET row_offsets == <<0, 64, 20, 84>>
    IN  IF row >= m.lines THEN [m EXCEPT !.err = "Other"]
        ELSE IF U8AddOverflows(AsU8(col), row_offsets[row + 1]) /\ m.overflow_checks
            THEN [m EXCEPT !.err = "panic"]
        ELSE LET command == BitOr(LCD_SETDDRAMADDR, U8AddWrapped(AsU8(col), row_offsets[row + 1]))
                 m1 == write_command(m, command)
             IN  IF m1.err # "ok" THEN m1 ELSE [m1 EXCEPT !.row = row, !.column = col]

\* set_backlight that switches the pin's level instead of its mode.
set_backlight_by_level(m, on) ==
    LET m1 == digital_write(m, LCD_BACKLIGHT, on)
    IN  IF m1.err # "ok" THEN m1 ELSE [m1 EXCEPT !.backlight = on]

set_backlight(m, on) ==
    IF on
    THEN LET m1 == pin_mode_output(m, LCD_BACKLIGHT)
         IN  IF m1.err # "ok" THEN m1 ELSE [m1 EXCEPT !.backlight = TRUE]
    ELSE LET m1 == pin_mode_input(m, LCD_BACKLIGHT)
         IN  IF m1.err # "ok" THEN m1 ELSE [m1 EXCEPT !.backlight = FALSE]

\* cursor_position that rejects an out-of-range row as set_cursor does.
cursor_position_rejects_row(m, column0, row0) ==
    LET column == IF column0 >= m.columns THEN m.columns - 1 ELSE column0
    IN  IF m.err # "ok" THEN m
        ELSE IF row0 >= m.lines THEN [m EXCEPT !.err = "Other"]
        ELSE LET m1 == write_command(m, BitOr(LCD_SETDDRAMADDR,
                                              U8AddWrapped(AsU8(column), LCD_ROW_OFFSETS[row0 + 1])))
             IN  IF m1.err # "ok" THEN m1 ELSE [m1 EXCEPT !.row = row0, !.column = column]

\* cursor_position that wraps a row past the last line around to the first
\* lines instead of saturating it.
cursor_position_wraps_row(m, column0, row0) ==
    LET row == IF row0 >= m.lines THEN row0 % m.lines ELSE row0
        column == IF column0 >= m.columns THEN m.columns - 1 ELSE column0
    IN  IF m.err # "ok" THEN m
        ELSE IF U8AddOverflows(AsU8(column), LCD_ROW_OFFSETS[row + 1]) /\ m.overflow_checks
            THEN [m EXCEPT !.err = "panic"]
        ELSE LET m1 == write_command(m, BitOr(LCD_SETDDRAMADDR,
                                              U8AddWrapped(AsU8(column), LCD_ROW_OFFSETS[row + 1])))
             IN  IF m1.err # "ok" THEN m1 ELSE [m1 EXCEPT !.row = row, !.column = column]

cursor_position(m, column0, row0) ==
    LET row == IF row0 >= m.lines THEN m.lines - 1 ELSE row0
        column == IF column0 >= m.columns THEN m.columns - 1 ELSE column0
    IN  IF m.err # "ok" THEN m
        ELSE IF U8AddOverflows(AsU8(column), LCD_ROW_OFFSETS[row + 1]) /\ m.overflow_checks
            THEN [m EXCEPT !.err = "panic"]
        ELSE LET m1 == write_command(m, BitOr(LCD_SETDDRAMADDR,
                                              U8AddWrapped(AsU8(column), LCD_ROW_OFFSETS[row + 1])))
             IN  IF m1.err # "ok" THEN m1 ELSE [m1 EXCEPT !.row = row, !.column = column]

\* The column message() hands to cursor_position before the first character.
message_first_col(m) ==
    IF BitAnd(m.display_mode, LCD_ENTRYLEFT) > 0 THEN m.column
    ELSE IF m.column > m.columns - 1 THEN UsizeWrapped
    ELSE m.columns - 1 - m.column

\* message_newline_col that keeps the stored column, as if column_align were set.
message_newline_col_aligned(m) == m.column

\* The column message() hands to cursor_position at a line break.
message_newline_col(m) ==
    IF BitAnd(m.display_mode, LCD_ENTRYLEFT) > 0
    THEN IF m.column_align THEN m.column ELSE 0
    ELSE IF m.column_align THEN m.column ELSE m.columns - 1

RECURSIVE message_loop(_, _, _, _)
\* The body of `for char in message.chars()`, one character per unfolding.
message_loop(m, chars, line, initial_character) ==
    IF chars = <<>> \/ m.err # "ok" THEN m
    ELSE LET char == Head(chars)
             m1 == IF initial_character # 0 THEN m
                   ELSE IF BitAnd(m.display_mode, LCD_ENTRYLEFT) = 0
                           /\ m.column > m.columns - 1 /\ m.overflow_checks
                       THEN [m EXCEPT !.err = "panic"]
                   ELSE cursor_position(m, message_first_col(m), line)
             line1 == IF char = 10 THEN line + 1 ELSE line
             m2 == IF m1.err # "ok" THEN m1
                   ELSE IF char = 10 THEN cursor_position(m1, message_newline_col(m1), line1)
                   ELSE write8(m1, AsU8(char), TRUE)
         IN  message_loop(m2, Tail(chars), line1, 1)

\* message without the final reset of the tracked cursor.
message_keeps_cursor(m, text) == message_loop(m, text, m.row, 0)

\* message that starts at the stored column but always on row 0 and resets
\* only the column afterwards.
message_resets_column_only(m, text) ==
    LET m1 == message_loop(m, text, m.row, 0)
    IN  IF m1.err # "ok" THEN m1 ELSE [m1 EXCEPT !.column = 0]

message(m, text) ==
    LET m1 == message_loop(m, text, m.row, 0)
    IN  IF m1.err # "ok" THEN m1 ELSE [m1 EXCEPT !.column = 0, !.row = 0]

read_button(m, pin, level) == digital_read(m, pin, level)

RECURSIVE ForEachPin(_, _, _)
\* `for pin in [...] { op(pin)?; }`
ForEachPin(Op(_, _), m, pins) ==
    IF pins = <<>> \/ m.err # "ok" THEN m ELSE ForEachPin(Op, Op(m, Head(pins)), Tail(pins))

button_pin_setup(m, pin) == IF m.err # "ok" THEN m ELSE pull_up(pin_mode_input(m, pin), pin)

setup_pins(m) ==
    IF m.err # "ok" THEN m ELSE
    LET m1 == ForEachPin(pin_mode_output, m,
                         <<LCD_RS, LCD_E, LCD_D4, LCD_D5, LCD_D6, LCD_D7, LCD_RW>>)
        m2 == ForEachPin(pin_mode_output, m1, <<RGB_RED, RGB_GREEN, RGB_BLUE>>)
    IN  ForEachPin(button_pin_setup, m2,
                   <<BTN_LEFT, BTN_UP, BTN_DOWN, BTN_RIGHT, BTN_SELECT>>)

\* initialize with the function-set command written before display-control.
initialize_function_set_first(m) ==
    IF m.err # "ok" THEN m ELSE
    LET m1 == delay_ms(m, 50)
        m2 == digital_write(m1, LCD_RS, FALSE)
        m3 == digital_write(m2, LCD_E, FALSE)
        m4 == digital_write(m3, LCD_RW, FALSE)
        m5 == delay_ms(write4bits(m4, 3), 5)
        m6 == delay_ms(write4bits(m5, 3), 5)
        m7 == delay_ms(write4bits(m6, 3), 1)
        m8 == delay_ms(write4bits(m7, 2), 1)
        m9 == IF m8.err # "ok" THEN m8
              ELSE [m8 EXCEPT !.display_control = 4, !.display_function = 8, !.display_mode = 2]
        m10 == write_command(m9, BitOr(LCD_FUNCTIONSET, m9.display_function))
        m11 == write_command(m10, BitOr(LCD_DISPLAYCONTROL, m10.display_control))
        m12 == write_command(m11, BitOr(LCD_ENTRYMODESET, m11.display_mode))
        m13 == clear(m12)
        m14 == IF m13.err # "ok" THEN m13
               ELSE [m13 EXCEPT !.row = 0, !.column = 0, !.column_align = FALSE,
                                !.direction = LEFT_TO_RIGHT]
    IN  set_color(m14, 0, 0, 0)

\* initialize that sends the entry-mode command before it sets display_mode.
initialize_stale_entry_mode(m) ==
    IF m.err # "ok" THEN m ELSE
    LET m1 == delay_ms(m, 50)
        m2 == digital_write(m1, LCD_RS, FALSE)
        m3 == digital_write(m2, LCD_E, FALSE)
        m4 == digital_write(m3, LCD_RW, FALSE)
        m5 == delay_ms(write4bits(m4, 3), 5)
        m6 == delay_ms(write4bits(m5, 3), 5)
        m7 == delay_ms(write4bits(m6, 3), 1)
        m8 == delay_ms(write4bits(m7, 2), 1)
        m9 == IF m8.err # "ok" THEN m8
              ELSE [m8 EXCEPT !.display_control = 4, !.display_function = 8]
        m10 == write_command(m9, BitOr(LCD_DISPLAYCONTROL, m9.display_control))
        m11 == write_command(m10, BitOr(LCD_FUNCTIONSET, m10.display_function))
        m12 == write_command(m11, BitOr(LCD_ENTRYMODESET, m11.display_mode))
        m13 == clear(m12)
        m14 == IF m13.err # "ok" THEN m13
               ELSE [m13 EXCEPT !.display_mode = 2, !.row = 0, !.column = 0,
                                !.column_align = FALSE, !.direction = LEFT_TO_RIGHT]
    IN  set_color(m14, 0, 0, 0)

initialize(m) ==
    IF m.err # "ok" THEN m ELSE
    LET m1 == delay_ms(m, 50)
        m2 == digital_write(m1, LCD_RS, FALSE)
        m3 == digital_write(m2, LCD_E, FALSE)
        m4 == digital_write(m3, LCD_RW, FALSE)
        m5 == delay_ms(write4bits(m4, 3), 5)
        m6 == delay_ms(write4bits(m5, 3), 5)
        m7 == delay_ms(write4bits(m6, 3), 1)
        m8 == delay_ms(write4bits(m7, 2), 1)
        m9 == IF m8.err # "ok" THEN m8
              ELSE [m8 EXCEPT
                      !.display_control = BitOr(BitOr(LCD_DISPLAYON, LCD_CURSOROFF), LCD_BLINKOFF),
                      !.display_function = BitOr(BitOr(BitOr(LCD_4BITMODE, LCD_1LINE), LCD_2LINE),
                                                 LCD_5X8DOTS),
                      !.display_mode = BitOr(LCD_ENTRYLEFT, LCD_ENTRYSHIFTDECREMENT)]
        m10 == write_command(m9, BitOr(LCD_DISPLAYCONTROL, m9.display_control))
        m11 == write_command(m10, BitOr(LCD_FUNCTIONSET, m10.display_function))
        m12 == write_command(m11, BitOr(LCD_ENTRYMODESET, m11.display_mode))
        m13 == clear(m12)
        m14 == IF m13.err # "ok" THEN m13
               ELSE [m13 EXCEPT !.row = 0, !.column = 0, !.column_align = FALSE,
                                !.direction = LEFT_TO_RIGHT]
    IN  set_color(m14, 0, 0, 0)

\* The struct literal of new().
NewDriver(columns0, lines0) ==
    [columns |-> columns0, lines |-> lines0, backlight |-> TRUE,
     rgb |-> <<RGB_RED, RGB_GREEN, RGB_BLUE>>, color_value |-> <<0, 0, 0>>,
     display_control |-> 0, display_mode |-> 0, display_function |-> 0,
     row |-> 0, column |-> 0, column_align |-> FALSE, direction |-> 0]

\* A call in progress on driver d: nothing issued yet.
Begin(d, fuel, overflow_checks) ==
    [columns |-> d.columns, lines |-> d.lines, backlight |-> d.backlight,
     rgb |-> d.rgb, color_value |-> d.color_value,
     display_control |-> d.display_control, display_mode |-> d.display_mode,
     display_function |-> d.display_function,
     row |-> d.row, column |-> d.column, column_align |-> d.column_align,
     direction |-> d.direction,
     trace |-> <<>>, fuel |-> fuel, failed |-> 0, overflow_checks |-> overflow_checks,
     err |-> "ok"]

\* new that runs initialize before setup_pins.
new_initialize_first(columns0, lines0, fuel) ==
    LET m0 == Begin(NewDriver(columns0, lines0), fuel, FALSE)
        m1 == Transact(m0, "mcp_default", 0, 0)
    IN  setup_pins(initialize(m1))

\* MCP23017::default(i2c)? is one (opaque) fallible step of the expander crate.
new(columns0, lines0, fuel) ==
    LET m0 == Begin(NewDriver(columns0, lines0), fuel, FALSE)
        m1 == Transact(m0, "mcp_default", 0, 0)
    IN  initialize(setup_pins(m1))

\* ------------------------------------------------------------------ inputs
\* The two panel sizes the driver is written for ("For 16x2 or 20x4 LCD").
Geometries == {<<16, 2>>, <<20, 4>>}
\* Column arguments: first column, last column of either panel, one past the
\* widest panel, and a column beyond u8 (456 as u8 = 200).
ColArgs == {0, 15, 19, 20, 456}
RowArgs == 0..MaxRowArg
\* Characters of a message, as code points: line feed, 'A', and U+01E9 (a
\* code point above 255, whose low byte is 0xE9).
Alphabet == {10, 65, 489}
RECURSIVE SeqsUpTo(_, _)
SeqsUpTo(S, n) ==
    IF n = 0 THEN {<<>>}
    ELSE LET shorter == SeqsUpTo(S, n - 1)
         IN  shorter \cup {Append(t, c) : t \in {u \in shorter : Len(u) = n - 1}, c \in S}
Messages == SeqsUpTo(Alphabet, MaxMsgLen)
\* Colour arguments: the extremes and every mix of the 1 / 2 boundary.
ColorArgs == {<<0, 0, 0>>, <<255, 255, 255>>} \cup ({1, 2} \X {1, 2} \X {1, 2})
Buttons == {BTN_LEFT, BTN_RIGHT, BTN_UP, BTN_DOWN, BTN_SELECT}

\* ------------------------------------------------------------------ state
VARIABLES
    phase,              \* "uninit", "ready", "failed" (new returned Err), "halted" (panic)
    columns, lines, backlight, color_value,
    display_control, display_mode, display_function,
    row, column, column_align, direction,
    last,               \* the call that has just returned; name "none" once the caller took it
    prev                \* the call before it: its name if it returned Ok, else "error"

vars == <<phase, columns, lines, backlight, color_value, display_control, display_mode,
          display_function, row, column, column_align, direction, last, prev>>

\* The driver instance as a record.
Self ==
    [columns |-> columns, lines |-> lines, backlight |-> backlight,
     rgb |-> <<RGB_RED, RGB_GREEN, RGB_BLUE>>, color_value |-> color_value,
     display_control |-> display_control, display_mode |-> display_mode,
     display_function |-> display_function,
     row |-> row, column |-> column, column_align |-> column_align,
     direction |-> direction]

IsTransaction(ev) == ev[1] \notin {"delay_us", "delay_ms"}
\* Number of expander transactions in a trace.
TxCount(trace) == Cardinality({i \in DOMAIN trace : IsTransaction(trace[i])})

\* Every way a call can end: no transaction fails, or the one after `failing`
\* successful ones does.
Outcomes(Run(_)) ==
    LET full == Run(NoFail)
    IN  {full} \cup {Run(failing) : failing \in 0..(TxCount(full.trace) - 1)}

\* The same, for either kind of build: one with overflow checks differs from
\* one without only in the runs that panic.
BuildOutcomes(Run(_, _)) ==
    Outcomes(LAMBDA k : Run(k, FALSE))
        \cup {m \in Outcomes(LAMBDA k : Run(k, TRUE)) : m.err = "panic"}

\* The fields of the driver after a call.
Commit(m) ==
    /\ columns' = m.columns
    /\ lines' = m.lines
    /\ backlight' = m.backlight
    /\ color_value' = m.color_value
    /\ display_control' = m.display_control
    /\ display_mode' = m.display_mode
    /\ display_function' = m.display_function
    /\ row' = m.row
    /\ column' = m.column
    /\ column_align' = m.column_align
    /\ direction' = m.direction

Result(m) == IF m.err = "ok" THEN "Ok" ELSE m.err

NoCall ==
    [name |-> "none", args |-> <<>>, result |-> "Ok", value |-> 0,
     pre_row |-> 0, pre_column |-> 0, pre_backlight |-> TRUE, trace |-> <<>>,
     failed |-> 0]

\* A public operation `name(args)` ran from the current state and ended as m.
Return(name, args, value, m) ==
    /\ last' = [name |-> name, args |-> args, result |-> Result(m), value |-> value,
                pre_row |-> row, pre_column |-> column, pre_backlight |-> backlight,
                trace |-> m.trace, failed |-> m.failed]
    /\ phase' = IF m.err = "panic" THEN "halted" ELSE "ready"
    /\ Commit(m)
    /\ UNCHANGED prev

\* The driver exists and no call is in progress (&mut self: calls do not overlap).
CanCall == phase = "ready" /\ last.name = "none"

\* The text operations are explored with the LEDs and the backlight as
\* construction left them, the panel operations with the cursor at the origin:
\* neither group reads or writes the other's fields.
PanelAtRest == color_value = <<0, 0, 0>> /\ backlight = TRUE
CursorAtRest == row = 0 /\ column = 0

Init ==
    /\ phase = "uninit"
    /\ columns = 0 /\ lines = 0 /\ backlight = TRUE /\ color_value = <<0, 0, 0>>
    /\ display_control = 0 /\ display_mode = 0 /\ display_function = 0
    /\ row = 0 /\ column = 0 /\ column_align = FALSE /\ direction = 0
    /\ last = NoCall
    /\ prev = "none"

\* CharLCDRGBI2C::new: on Err no driver exists.
New ==
    /\ phase = "uninit"
    /\ \E g \in Geometries :
         \E m \in Outcomes(LAMBDA k : new(g[1], g[2], k)) :
            /\ last' = [name |-> "new", args |-> g, result |-> Result(m), value |-> 0,
                        pre_row |-> 0, pre_column |-> 0, pre_backlight |-> TRUE,
                        trace |-> m.trace, failed |-> m.failed]
            /\ UNCHANGED prev
            /\ IF m.err = "ok"
               THEN phase' = "ready" /\ Commit(m)
               ELSE /\ phase' = "failed"
                    /\ UNCHANGED <<columns, lines, backlight, color_value, display_control,
                                   display_mode, display_function, row, column, column_align,
                                   direction>>

\* The caller takes the result of the call that returned; the driver is idle.
Resume ==
    /\ phase = "ready"
    /\ last.name # "none"
    /\ prev' = IF last.result = "Ok" THEN last.name ELSE "error"
    /\ last' = NoCall
    /\ UNCHANGED <<phase, columns, lines, backlight, color_value, display_control,
                   display_mode, display_function, row, column, column_align, direction>>

Clear ==
    /\ CanCall /\ PanelAtRest
    /\ \E m \in Outcomes(LAMBDA k : clear(Begin(Self, k, FALSE))) :
         Return("clear", <<>>, 0, m)

Home ==
    /\ CanCall /\ PanelAtRest
    /\ \E m \in Outcomes(LAMBDA k : home(Begin(Self, k, FALSE))) :
         Return("home", <<>>, 0, m)

SetColor ==
    /\ CanCall /\ CursorAtRest
    /\ \E c \in ColorArgs :
         \E m \in Outcomes(LAMBDA k : set_color(Begin(Self, k, FALSE), c[1], c[2], c[3])) :
            Return("set_color", c, 0, m)

SetCursor ==
    /\ CanCall /\ PanelAtRest
    /\ \E col \in ColArgs, r \in RowArgs :
         \E m \in BuildOutcomes(LAMBDA k, oc : set_cursor(Begin(Self, k, oc), col, r)) :
            Return("set_cursor", <<col, r>>, 0, m)

SetBacklight ==
    /\ CanCall /\ CursorAtRest
    /\ \E on \in BOOLEAN :
         \E m \in Outcomes(LAMBDA k : set_backlight(Begin(Self, k, FALSE), on)) :
            Return("set_backlight", <<IF on THEN 1 ELSE 0>>, 0, m)

CursorPosition ==
    /\ CanCall /\ PanelAtRest
    /\ \E col \in ColArgs, r \in RowArgs :
         \E m \in BuildOutcomes(LAMBDA k, oc : cursor_position(Begin(Self, k, oc), col, r)) :
            Return("cursor_position", <<col, r>>, 0, m)

Message ==
    /\ CanCall /\ PanelAtRest
    /\ \E text \in Messages :
         \E m \in BuildOutcomes(LAMBDA k, oc : message(Begin(Self, k, oc), text)) :
            Return("message", text, 0, m)

\* read_button_left / _right / _up / _down / _select; level is what the pin reads.
ReadButton ==
    /\ CanCall /\ CursorAtRest
    /\ \E pin \in Buttons, level \in {0, 1} :
         \E m \in Outcomes(LAMBDA k : read_button(Begin(Self, k, FALSE), pin, level)) :
            Return("read_button", <<pin>>, IF m.err = "ok" THEN level ELSE 0, m)

Next ==
    \/ New
    \/ Resume
    \/ Clear
    \/ Home
    \/ SetColor
    \/ SetCursor
    \/ SetBacklight
    \/ CursorPosition
    \/ Message
    \/ ReadButton

Spec == Init /\ [][Next]_vars

\* ------------------------------------------------------------------ the LCD's view
\* What the HD44780 controller sees of a trace: it latches RS and D7..D4 at
\* every falling edge of E.  Levels are those of the last successful write to
\* the pin before the edge (-1: not written in this call).

\* The transactions of a call that took effect: all but the one that failed.
Effective(call) ==
    IF call.result = "Mcp" THEN SubSeq(call.trace, 1, Len(call.trace) - 1) ELSE call.trace

WritesTo(trace, pin) ==
    {i \in DOMAIN trace : trace[i][1] = "digital_write" /\ trace[i][2] = pin}

SetMax(S) == CHOOSE x \in S : \A y \in S : y <= x

RECURSIVE LastWriteBefore(_, _, _)
\* Position of the last write to `pin` before position i (0: none).
LastWriteBefore(trace, pin, i) ==
    IF i <= 1 THEN 0
    ELSE IF trace[i - 1][1] = "digital_write" /\ trace[i - 1][2] = pin THEN i - 1
    ELSE LastWriteBefore(trace, pin, i - 1)

\* Level of `pin` just before position i.
LevelBefore(trace, pin, i) ==
    LET j == LastWriteBefore(trace, pin, i)
    IN  IF j = 0 THEN -1 ELSE trace[j][3]

FallingEdges(trace) ==
    {i \in WritesTo(trace, LCD_E) : trace[i][3] = 0 /\ LevelBefore(trace, LCD_E, i) = 1}

\* The nibbles the controller latched, in order, each with the RS level.
Latched(trace) ==
    LET edges == FallingEdges(trace)
        EdgeAt(k) == CHOOSE e \in edges : Cardinality({x \in edges : x <= e}) = k
    IN  [k \in 1..Cardinality(edges) |->
            [rs |-> LevelBefore(trace, LCD_RS, EdgeAt(k)),
             nibble |-> LevelBefore(trace, LCD_D4, EdgeAt(k))
                        + 2 * LevelBefore(trace, LCD_D5, EdgeAt(k))
                        + 4 * LevelBefore(trace, LCD_D6, EdgeAt(k))
                        + 8 * LevelBefore(trace, LCD_D7, EdgeAt(k)),
             at |-> EdgeAt(k)]]

\* The bytes received in 4-bit mode (high nibble first) from a nibble sequence.
BytesOf(nibbles) ==
    [k \in 1..(Len(nibbles) \div 2) |->
        [rs |-> nibbles[2 * k - 1].rs,
         value |-> 16 * nibbles[2 * k - 1].nibble + nibbles[2 * k].nibble,
         same_rs |-> nibbles[2 * k - 1].rs = nibbles[2 * k].rs]]

\* The bytes a public operation made the controller receive.
Received(call) == BytesOf(Latched(Effective(call)))

\* The command bytes (RS low) among them, as numbers.
Values(bytes) == [k \in DOMAIN bytes |-> bytes[k].value]

Returned(name) == last.name = name
ReturnedOk(name) == last.name = name /\ last.result = "Ok"

\* ------------------------------------------------------------------ C1
\* C1: whenever an operation has completed on a constructed driver, the
\* tracked cursor satisfies row < lines and column < columns.
C1_CursorInRange ==
    phase = "ready" => (row < lines /\ column < columns)

\* ------------------------------------------------------------------ C2
\* The nibbles and bytes the controller received during construction.
NewNibbles == [k \in 1..4 |-> Latched(Effective(last))[k].nibble]
NewBytes ==
    LET all == Latched(Effective(last))
    IN  BytesOf(SubSeq(all, 5, Len(all)))
\* The last three transactions of construction.
NewTail == SubSeq(last.trace, Len(last.trace) - 2, Len(last.trace))
AllChannelsOff ==
    <<<<"digital_write", RGB_RED, 1>>, <<"digital_write", RGB_GREEN, 1>>,
      <<"digital_write", RGB_BLUE, 1>>>>

RowOffset(r) == CASE r = 0 -> 0 [] r = 1 -> 64 [] r = 2 -> 20 [] r = 3 -> 84

\* C3: for row < lines and col < columns, a set_cursor(col, row) call without
\* bus failure makes the controller receive exactly one byte, a command (RS
\* low, two nibbles) equal to 0x80 | (col + row_offset[row]), and the tracked
\* cursor is then (row, col).
C3_SetCursorCommand ==
    (ReturnedOk("set_cursor") /\ last.args[1] < columns /\ last.args[2] < lines) =>
        /\ Len(Latched(last.trace)) = 2
        /\ Received(last) =
              <<[rs |-> 0, value |-> 128 + last.args[1] + RowOffset(last.args[2]),
                 same_rs |-> TRUE]>>
        /\ last.args[1] + RowOffset(last.args[2]) < 128
        /\ row = last.args[2] /\ column = last.args[1]

C3_Witness ==
    /\ ReturnedOk("set_cursor") /\ last.args = <<15, 3>>
    /\ Values(Received(last)) = <<227>>
    /\ last.pre_row = 1

\* ------------------------------------------------------------------ C4
\* C4: set_cursor(col, row) with row >= lines returns the range error
\* (LcdError::Other, not the bus error kind), issues no bus transaction, does
\* not clamp, and leaves the tracked row and column unchanged.
C4_SetCursorRangeError ==
    (Returned("set_cursor") /\ last.args[2] >= lines) =>
        /\ last.result = "Other"
        /\ last.trace = <<>>
        /\ row = last.pre_row /\ column = last.pre_column

C4_Witness ==
    /\ Returned("set_cursor") /\ last.args[2] = lines /\ last.result = "Other"
    /\ row = 1 /\ column = 15

\* ------------------------------------------------------------------ C5
\* The row and column cursor_position substitutes for its arguments.
ClampedRow == IF last.args[2] >= lines THEN lines - 1 ELSE last.args[2]
ClampedCol == IF last.args[1] >= columns THEN columns - 1 ELSE last.args[1]
C5_Effect ==
    /\ Received(last) =
          <<[rs |-> 0, value |-> 128 + ClampedCol + RowOffset(ClampedRow), same_rs |-> TRUE]>>
    /\ row = ClampedRow /\ column = ClampedCol

\* C5 as stated: cursor_position never fails; for every input it substitutes
\* lines - 1 / columns - 1 for an out-of-range row / column, issues the
\* address command for the substituted values and tracks them.
C5_NeverFailsAsStated ==
    Returned("cursor_position") => (last.result = "Ok" /\ C5_Effect)

\* C5 (amended): cursor_position never fails on range: it never returns the
\* range error and never panics; it returns Ok unless an expander transaction
\* fails, and then has issued the address command for the substituted values
\* and tracks them.
C5_NeverFailsOnRange ==
    Returned("cursor_position") =>
        /\ last.result \in {"Ok", "Mcp"}
        /\ last.result = "Mcp" => TxCount(last.trace) >= 1
        /\ last.result = "Ok" => C5_Effect

C5_Witness ==
    /\ ReturnedOk("cursor_position") /\ last.args = <<456, 4>>
    /\ row = lines - 1 /\ column = columns - 1

\* ------------------------------------------------------------------ C6
Bit(n, i) == (n \div (2 ^ i)) % 2

\* One nibble transfer: D4..D7 from bits 0..3, then one enable pulse.
NibbleTransfer(n) ==
    <<<<"digital_write", LCD_D4, Bit(n, 0)>>, <<"digital_write", LCD_D5, Bit(n, 1)>>,
      <<"digital_write", LCD_D6, Bit(n, 2)>>, <<"digital_write", LCD_D7, Bit(n, 3)>>,
      <<"digital_write", LCD_E, 0>>, <<"delay_us", 0, 1>>,
      <<"digital_write", LCD_E, 1>>, <<"delay_us", 0, 1>>,
      <<"digital_write", LCD_E, 0>>, <<"delay_us", 0, 100>>>>

\* What write8(v, is_data) is claimed to put on the bus.
ByteTransfer(v, is_data) ==
    <<<<"digital_write", LCD_RS, is_data>>>> \o NibbleTransfer(v \div 16) \o NibbleTransfer(v % 16)

RECURSIVE DataTransfers(_)
\* The transfers of the characters of a text without line breaks, as data.
DataTransfers(text) ==
    IF text = <<>> THEN <<>>
    ELSE ByteTransfer(Head(text) % 256, 1) \o DataTransfers(Tail(text))

NoLineBreak(text) == \A i \in DOMAIN text : text[i] # 10

\* The byte set_cursor hands to write8: 0x80 | (col as u8 + offset), the sum in u8.
SetCursorByte(col, r) ==
    LET sum == ((col % 256) + RowOffset(r)) % 256
    IN  IF sum >= 128 THEN sum ELSE 128 + sum

\* C6: write8(v, is_data) writes RS to is_data, then transfers the two nibbles
\* v >> 4 and v & 0x0F in that order (bit i on D4+i), each nibble's four
\* data-line writes followed by exactly one enable pulse.  Checked on every
\* write8 of the calls that complete: clear (v = 0x01), home (v = 0x02),
\* set_cursor and cursor_position (the address command) and the data bytes of
\* a message.
C6_Write8Sequence ==
    /\ ReturnedOk("clear") => last.trace = ByteTransfer(1, 0) \o <<<<"delay_ms", 0, 3>>>>
    /\ ReturnedOk("home") => last.trace = ByteTransfer(2, 0) \o <<<<"delay_ms", 0, 3>>>>
    /\ ReturnedOk("set_cursor") =>
          last.trace = ByteTransfer(SetCursorByte(last.args[1], last.args[2]), 0)
    /\ ReturnedOk("cursor_position") =>
          last.trace = ByteTransfer(128 + ClampedCol + RowOffset(ClampedRow), 0)
    /\ (ReturnedOk("message") /\ last.args # <<>> /\ NoLineBreak(last.args)) =>
          SubSeq(last.trace, 22, Len(last.trace)) = DataTransfers(last.args)

C6_Witness ==
    /\ ReturnedOk("message") /\ last.args = <<489, 65>>
    /\ Values(Received(last)) = <<128 + 19 + 84, 233, 65>>

\* ------------------------------------------------------------------ C7
\* C7 as stated: after any message call returns, the tracked cursor is (0, 0).
C7_ResetAfterAnyReturn ==
    Returned("message") => (row = 0 /\ column = 0)

\* C7 (amended): after any message call returns Ok, whatever the text and the
\* cursor before the call, the tracked cursor is (0, 0).
C7_ResetAfterMessage ==
    ReturnedOk("message") => (row = 0 /\ column = 0)

C7_Witness ==
    /\ ReturnedOk("message") /\ Len(last.args) = 2
    /\ last.pre_row = 1 /\ last.pre_column = 456
    /\ row = 0 /\ column = 0

LineBreaksUpTo(text, i) == Cardinality({j \in 1..i : text[j] = 10})

\* The column C9 names for the current entry mode.
LineBreakColumn == IF (display_mode \div 2) % 2 = 1 THEN 0 ELSE columns - 1

LastRow(r) == IF r >= lines THEN lines - 1 ELSE r

\* C9: with column_align false, a line break in a message is not sent as a
\* data byte; in its place the controller receives an address command for the
\* next line (at most the last line) and column 0 in left-to-right entry
\* mode, columns - 1 in right-to-left entry mode.  The second conjunct states
\* the same of the column the code computes when the entry mode is
\* right-to-left, which no public operation selects.
C9_LineBreakColumn ==
    /\ (ReturnedOk("message") /\ ~column_align) =>
          \A i \in DOMAIN last.args :
             LET received == Received(last)[i + 1]
             IN  IF last.args[i] = 10
                 THEN received =
                        [rs |-> 0,
                         value |-> 128 + LineBreakColumn
                                   + RowOffset(LastRow(last.pre_row
                                                       + LineBreaksUpTo(last.args, i))),
                         same_rs |-> TRUE]
                 ELSE received.rs = 1
    /\ phase = "ready" =>
          /\ message_newline_col([Self EXCEPT !.display_mode = 0, !.column_align = FALSE])
                = columns - 1
          /\ message_newline_col([Self EXCEPT !.display_mode = 2, !.column_align = FALSE]) = 0

C9_Witness ==
    /\ ReturnedOk("message") /\ last.args = <<10, 65>>
    /\ last.pre_row = 0 /\ last.pre_column = 15 /\ ~column_align
    /\ Values(Received(last)) = <<128 + 15, 128 + 64, 65>>

\* ------------------------------------------------------------------ C10
\* C10: set_backlight(false) issues exactly one transaction, pin-mode-to-input
\* on the backlight pin, and leaves the flag false; a set_backlight(true)
\* directly after it issues exactly one transaction, pin-mode-to-output on the
\* same pin, and leaves the flag true; neither writes a level to the pin.
C10_BacklightByMode ==
    /\ (ReturnedOk("set_backlight") /\ last.args = <<0>>) =>
          /\ last.trace = <<<<"pin_mode_input", LCD_BACKLIGHT, 0>>>>
          /\ backlight = FALSE
    /\ (ReturnedOk("set_backlight") /\ last.args = <<1>>
            /\ prev = "set_backlight" /\ last.pre_backlight = FALSE) =>
          /\ last.trace = <<<<"pin_mode_output", LCD_BACKLIGHT, 0>>>>
          /\ backlight = TRUE
    /\ Returned("set_backlight") => WritesTo(last.trace, LCD_BACKLIGHT) = {}

C10_Witness ==
    /\ ReturnedOk("set_backlight") /\ last.args = <<1>>
    /\ prev = "set_backlight" /\ last.pre_backlight = FALSE
    /\ backlight = TRUE

\* ------------------------------------------------------------------ C11
\* The level that lights (0) or darkens (1) a channel of the common-anode LED.
ChannelLevel(v) == IF v > 1 THEN 0 ELSE 1

\* C11: set_color(r, g, b) issues exactly one level write per channel, in the
\* order red, green, blue, each low when its value is > 1 and high when it is
\* 0 or 1; when it returns Ok the stored colour is (r, g, b), and when it
\* fails the writes issued are the first of these three.
C11_SetColorLevels ==
    Returned("set_color") =>
        LET expected == <<<<"digital_write", RGB_RED, ChannelLevel(last.args[1])>>,
                          <<"digital_write", RGB_GREEN, ChannelLevel(last.args[2])>>,
                          <<"digital_write", RGB_BLUE, ChannelLevel(last.args[3])>>>>
        IN  /\ last.trace = SubSeq(expected, 1, Len(last.trace))
            /\ last.result = "Ok" => (Len(last.trace) = 3 /\ color_value = last.args)

C11_Witness ==
    /\ ReturnedOk("set_color") /\ last.args = <<1, 2, 1>>
    /\ last.trace = <<<<"digital_write", RGB_RED, 1>>, <<"digital_write", RGB_GREEN, 0>>,
                      <<"digital_write", RGB_BLUE, 1>>>>
    /\ color_value = <<1, 2, 1>>

\* ------------------------------------------------------------------ C12
\* The driver as it was when the call that has returned began.
Pre ==
    [Self EXCEPT !.row = last.pre_row, !.column = last.pre_column,
                 !.backlight = last.pre_backlight]

\* The same call from the same state when no transaction fails.
Unfailed(call) ==
    LET m == Begin(Pre, NoFail, FALSE)
    IN  CASE call.name = "new" -> new(call.args[1], call.args[2], NoFail)
          [] call.name = "clear" -> clear(m)
          [] call.name = "home" -> home(m)
          [] call.name = "set_color" -> set_color(m, call.args[1], call.args[2], call.args[3])
          [] call.name = "set_cursor" -> set_cursor(m, call.args[1], call.args[2])
          [] call.name = "set_backlight" -> set_backlight(m, call.args[1] = 1)
          [] call.name = "cursor_position" -> cursor_position(m, call.args[1], call.args[2])
          [] call.name = "message" -> message(m, call.args)
          [] call.name = "read_button" -> read_button(m, call.args[1], call.trace[1][3])

IsPrefix(s, t) == Len(s) <= Len(t) /\ s = SubSeq(t, 1, Len(s))

\* C12: when an expander transaction fails during construction or a public
\* operation, the operation returns the bus error, the failing transaction is
\* the last thing it issued (nothing after it, no second attempt), and what
\* it issued before is exactly what the unfailed call issues up to there
\* (nothing is undone); a failed construction yields no driver.
C12_FailureAborts ==
    (last.name # "none" /\ last.failed > 0) =>
        LET whole == Unfailed(last).trace
        IN  /\ last.result = "Mcp"
            /\ last.failed = 1
            /\ IsTransaction(last.trace[Len(last.trace)])
            /\ IsPrefix(last.trace, whole)
            /\ TxCount(last.trace) <= TxCount(whole)
            /\ last.name = "new" => phase = "failed"

\* A message aborted between the two nibbles of its second byte.
C12_Witness ==
    /\ Returned("message") /\ last.args = <<65, 10>>
    /\ last.failed = 1 /\ last.result = "Mcp"
    /\ Len(Latched(Effective(last))) = 3
    /\ Len(last.trace) < Len(Unfailed(last).trace)

\* ------------------------------------------------------------------ C13
\* The positions at which E is driven high: one per enable pulse.
PulsesOf(trace) == {i \in WritesTo(trace, LCD_E) : trace[i][3] = 1}

\* The six events of the pulse whose rising edge is at position i, as far as
\* the trace goes.
PulseEvents(trace, i) ==
    IF i < 3 THEN <<>>
    ELSE SubSeq(trace, i - 2, IF i + 3 <= Len(trace) THEN i + 3 ELSE Len(trace))

\* C13: every enable pulse is E low, a wait of 1 us, E high, a wait of 1 us,
\* E low, a wait of 100 us, with nothing else in between (in particular no
\* write to a data line or to RS); in a call that returns Ok every pulse is
\* complete, and outside the pulses E is written only once, low, before the
\* first nibble of construction.
C13_EnablePulse ==
    last.name # "none" =>
        LET trace == last.trace
            pulse == <<<<"digital_write", LCD_E, 0>>, <<"delay_us", 0, 1>>,
                       <<"digital_write", LCD_E, 1>>, <<"delay_us", 0, 1>>,
                       <<"digital_write", LCD_E, 0>>, <<"delay_us", 0, 100>>>>
        IN  /\ \A i \in PulsesOf(trace) :
                 /\ Len(PulseEvents(trace, i)) >= 3
                 /\ IsPrefix(PulseEvents(trace, i), pulse)
                 /\ last.result = "Ok" => PulseEvents(trace, i) = pulse
            /\ last.result = "Ok" =>
                 Cardinality(WritesTo(trace, LCD_E))
                     = 3 * Cardinality(PulsesOf(trace)) + (IF last.name = "new" THEN 1 ELSE 0)
            /\ \A i \in DOMAIN trace : trace[i][1] = "delay_us" => trace[i][3] \in {1, 100}

\* Three bytes, six pulses.
C13_Witness ==
    /\ ReturnedOk("message") /\ last.args = <<65, 489>>
    /\ Cardinality(PulsesOf(last.trace)) = 6
    /\ Cardinality(FallingEdges(last.trace)) = 6

\* ------------------------------------------------------------------ C14
LcdPins == {LCD_RS, LCD_E, LCD_D4, LCD_D5, LCD_D6, LCD_D7, LCD_RW}

IsLcdEvent(ev) == ev[1] = "delay_us" \/ (ev[1] = "digital_write" /\ ev[2] \in LcdPins)

\* The part of a trace that concerns the LCD lines.
LcdPart(trace) == SelectSeq(trace, IsLcdEvent)

RECURSIVE Transfers(_)
\* The write8 transfers of a sequence of received bytes.
Transfers(bytes) ==
    IF bytes = <<>> THEN <<>>
    ELSE ByteTransfer(Head(bytes).value, Head(bytes).rs) \o Transfers(Tail(bytes))

PublicOps ==
    {"clear", "home", "set_color", "set_cursor", "set_backlight", "cursor_position",
     "message", "read_button"}

\* C14: no public operation re-enters the reset phase.  What a completed
\* public operation puts on the LCD lines is a sequence of whole write8
\* transfers (an RS write, then two nibbles); a failing one issued the
\* beginning of that sequence (C12), starting with an RS write.  No public
\* operation writes RW, and the commands one sends are clear, home or a
\* DDRAM address, never one of the 0x03 .. 0x7F range the reset and mode
\* commands lie in.
C14_NoResetAfterConstruction ==
    last.name \in PublicOps =>
        LET bytes == Received(last)
            events == LcdPart(last.trace)
        IN  /\ WritesTo(last.trace, LCD_RW) = {}
            /\ events # <<>> => (events[1][1] = "digital_write" /\ events[1][2] = LCD_RS)
            /\ last.result = "Ok" =>
                  /\ events = Transfers(bytes)
                  /\ Len(Latched(last.trace)) = 2 * Len(bytes)
            /\ \A k \in DOMAIN bytes :
                  /\ bytes[k].same_rs
                  /\ bytes[k].rs = 0 => bytes[k].value \in {1, 2} \cup (128..255)

C14_Witness ==
    /\ ReturnedOk("home") /\ prev = "message"
    /\ Values(Received(last)) = <<2>>
    /\ LcdPart(last.trace) = ByteTransfer(2, 0)

\* ------------------------------------------------------------------ C15
\* The positions of the command bytes of a class (lo .. hi) among bytes.
OfClass(bytes, lo, hi) ==
    {k \in DOMAIN bytes : bytes[k].rs = 0 /\ bytes[k].value >= lo /\ bytes[k].value <= hi}

\* The last command byte of the class the controller received (0: none).
LastOfClass(bytes, lo, hi) ==
    IF OfClass(bytes, lo, hi) = {} THEN 0 ELSE bytes[SetMax(OfClass(bytes, lo, hi))].value

\* C15: after a successful construction or public operation the last
\* function-set, display-control and entry-mode command bytes the controller
\* received are 0x20 | display_function, 0x08 | display_control and
\* 0x04 | display_mode.  Stated as the three facts that make it so: the bytes
\* construction sends are the flags it has just stored; no public operation,
\* completed or not, sends a byte of one of these classes; and the flags keep
\* the values construction gave them.
C15_ShadowFlagsMatchDevice ==
    /\ ReturnedOk("new") =>
          /\ LastOfClass(NewBytes, 32, 63) = LCD_FUNCTIONSET + display_function
          /\ LastOfClass(NewBytes, 8, 15) = LCD_DISPLAYCONTROL + display_control
          /\ LastOfClass(NewBytes, 4, 7) = LCD_ENTRYMODESET + display_mode
          /\ display_function < 32 /\ display_control < 8 /\ display_mode < 4
    /\ last.name \in PublicOps => OfClass(Received(last), 4, 63) = {}
    /\ phase = "ready" =>
          /\ display_function = BitOr(BitOr(BitOr(LCD_4BITMODE, LCD_1LINE), LCD_2LINE), LCD_5X8DOTS)
          /\ display_control = BitOr(BitOr(LCD_DISPLAYON, LCD_CURSOROFF), LCD_BLINKOFF)
          /\ display_mode = BitOr(LCD_ENTRYLEFT, LCD_ENTRYSHIFTDECREMENT)

\* A completed operation well after construction, flags and device as built.
C15_Witness ==
    /\ ReturnedOk("cursor_position") /\ prev = "message"
    /\ Values(Received(last)) = <<128 + 84 + 19>>
    /\ <<LCD_FUNCTIONSET + display_function, LCD_DISPLAYCONTROL + display_control,
         LCD_ENTRYMODESET + display_mode>> = <<40, 12, 6>>

\* ------------------------------------------------------------------ C16
\* Positions at which construction uses the display: a level write or a wait.
UsesOf(trace) == {i \in DOMAIN trace : trace[i][1] \in {"digital_write", "delay_ms", "delay_us"}}

\* The pin was configured with `kind` by a transaction before position i
\* that succeeded.
ConfiguredBefore(call, kind, pin, i) ==
    \E j \in DOMAIN Effective(call) : j < i /\ call.trace[j][1] = kind /\ call.trace[j][2] = pin

\* C16: during construction every level write and every wait, the power-on
\* wait included, comes after the seven LCD lines and the three RGB lines
\* were set to output and the five button pins to input with pull-up; and
\* only LCD and RGB lines are written.
C16_PinsConfiguredFirst ==
    Returned("new") =>
        /\ \A i \in UsesOf(last.trace) :
              /\ \A pin \in LcdPins \cup {RGB_RED, RGB_GREEN, RGB_BLUE} :
                    ConfiguredBefore(last, "pin_mode_output", pin, i)
              /\ \A pin \in Buttons :
                    /\ ConfiguredBefore(last, "pin_mode_input", pin, i)
                    /\ ConfiguredBefore(last, "pull_up", pin, i)
              /\ last.trace[i][1] = "digital_write" =>
                    last.trace[i][2] \in LcdPins \cup {RGB_RED, RGB_GREEN, RGB_BLUE}
        /\ last.result = "Ok" =>
              /\ UsesOf(last.trace) # {}
              /\ \E i \in UsesOf(last.trace) :
                    /\ last.trace[i] = <<"delay_ms", 0, 50>>
                    /\ \A j \in UsesOf(last.trace) : i <= j
                    /\ Cardinality({j \in DOMAIN last.trace : j < i /\ IsTransaction(last.trace[j])})
                          = 1 + 7 + 3 + 2 * 5

C16_Witness ==
    /\ ReturnedOk("new")
    /\ last.trace[22] = <<"delay_ms", 0, 50>>
    /\ last.trace[23] = <<"digital_write", LCD_RS, 0>>
    /\ ConfiguredBefore(last, "pull_up", BTN_SELECT, 22)

\* ------------------------------------------------------------------ C17
\* The column C17 names for the first character, for the current entry mode.
FirstColumn ==
    IF (display_mode \div 2) % 2 = 1 THEN last.pre_column ELSE columns - 1 - last.pre_column

\* What C17 says a completed, non-empty message makes the controller
\* receive, given the column of its first address command.
C17_Effect(first_col) ==
    /\ Received(last)[1] =
          [rs |-> 0, value |-> 128 + first_col + RowOffset(last.pre_row), same_rs |-> TRUE]
    /\ Len(Received(last)) = 1 + Len(last.args)
    /\ \A i \in DOMAIN last.args :
          IF last.args[i] = 10 THEN Received(last)[i + 1].rs = 0
          ELSE /\ Received(last)[i + 1].rs = 1 /\ Received(last)[i + 1].same_rs
               /\ last.args[i] <= 255 => Received(last)[i + 1].value = last.args[i]

\* C17: on the first character of a non-empty message, and only then, the
\* driver issues an address command for the stored row and the stored column
\* (left-to-right entry mode) or columns - 1 - column (right-to-left); every
\* other character that is not a line break goes out as a data byte (RS high)
\* equal to its single-byte code point.  (No public operation selects the
\* right-to-left mode, so every message here runs left-to-right.)
C17_FirstCharacterAddress ==
    (ReturnedOk("message") /\ last.args # <<>>) => C17_Effect(FirstColumn)

\* What holds instead: the same with the stored column saturated at
\* columns - 1; and the code's right-to-left column is columns - 1 - column
\* while column < columns.
C17_FirstCharacterClamped ==
    /\ (ReturnedOk("message") /\ last.args # <<>>) =>
          C17_Effect(IF last.pre_column >= columns THEN columns - 1 ELSE last.pre_column)
    /\ (phase = "ready" /\ last.name = "none" /\ column < columns) =>
          message_first_col([Self EXCEPT !.display_mode = 0]) = columns - 1 - column

\* ------------------------------------------------------------------ C18
\* C18: when clear, home, set_cursor or cursor_position returns an error
\* (the bus error or the range error), the tracked row and column are what
\* they were before the call.
C18_CursorKeptOnError ==
    (last.name \in {"clear", "home", "set_cursor", "cursor_position"}
        /\ last.result \in {"Mcp", "Other"}) =>
        (row = last.pre_row /\ column = last.pre_column)

\* clear failing on its very last transaction, cursor away from the origin.
C18_Witness ==
    /\ Returned("clear") /\ last.result = "Mcp"
    /\ TxCount(last.trace) = TxCount(Unfailed(last).trace)
    /\ Len(Latched(Effective(last))) = 1
    /\ row = 1 /\ column = 456

\* ------------------------------------------------------------------ C19
\* C19: for every set_cursor(col, row) call that does not return the range
\* error, the 8-bit sum col + row_offset[row] does not overflow (so the call
\* does not panic either) and stays below 0x80, and the command byte sent on
\* success is 0x80 + col + row_offset[row], the address of the requested cell.
C19_AddressSumInRange ==
    (Returned("set_cursor") /\ last.result # "Other") =>
        /\ last.result # "panic"
        /\ ~U8AddOverflows(AsU8(last.args[1]), RowOffset(last.args[2]))
        /\ AsU8(last.args[1]) + RowOffset(last.args[2]) < 128
        /\ last.result = "Ok" =>
              Values(Received(last)) = <<128 + last.args[1] + RowOffset(last.args[2])>>

\* What holds instead: the same for the calls whose column is on the panel.
C19_AddressSumOnPanel ==
    (Returned("set_cursor") /\ last.result # "Other" /\ last.args[1] < columns) =>
        /\ last.result # "panic"
        /\ ~U8AddOverflows(AsU8(last.args[1]), RowOffset(last.args[2]))
        /\ AsU8(last.args[1]) + RowOffset(last.args[2]) < 128
        /\ last.result = "Ok" =>
              Values(Received(last)) = <<128 + last.args[1] + RowOffset(last.args[2])>>

\* ------------------------------------------------------------------ C20
\* The address commands (RS low) among the bytes of a call, in order.
AddressCommands(call) == SelectSeq(Received(call), LAMBDA byte : byte.rs = 0)

\* The address command bytes of the cells of the panel.
PanelAddresses == {128 + c + RowOffset(r) : c \in 0..(columns - 1), r \in 0..(lines - 1)}

\* C20: every address command issued during a message call, completed or
\* not, addresses a cell of the panel (row <= lines - 1, column <=
\* columns - 1); the k-th line break of the message addresses row
\* pre_row + k while that is a row of the panel and the last row, lines - 1,
\* from then on.
C20_MessageRowsSaturate ==
    Returned("message") =>
        LET sent == AddressCommands(last)
            cells == PanelAddresses
        IN  /\ \A k \in DOMAIN sent : sent[k].value \in cells /\ sent[k].same_rs
            /\ \A k \in DOMAIN sent :
                  k >= 2 => sent[k].value
                              = 128 + RowOffset(LastRow(last.pre_row + k - 1)) + LineBreakColumn
            /\ last.result = "Ok" /\ last.args # <<>> =>
                  Len(sent) = 1 + LineBreaksUpTo(last.args, Len(last.args))

\* Two line breaks from the last row of the 20x4 panel: three address
\* commands, all on row 3.
C20_Witness ==
    /\ ReturnedOk("message") /\ last.args = <<10, 10>>
    /\ lines = 4 /\ last.pre_row = 3 /\ last.pre_column = 19
    /\ Values(AddressCommands(last)) = <<128 + 84 + 19, 128 + 84, 128 + 84>>

====
